---- MODULE Spec2Model ----
(***************************************************************************)
(* kombine/clustered_kde.py as a state machine.                            *)
(*                                                                         *)
(* Spec     the selector (OptimizedKDE.__init__) searching over k, each    *)
(*          iteration building a ClusteredKDE, followed by logpdf / draw / *)
(*          bic / size calls on the model it exposes.  The sample matrix   *)
(*          is kept by its shape and by which columns are constant; real   *)
(*          numbers the code derives from it are kept as records of what   *)
(*          they were computed from.                                       *)
(* FairSpec Spec with the search loop running to its end.                  *)
(* SpecKDE  one KDE with an integer kernel covariance: _set_bandwidth,     *)
(*          draw, and logpdf through map or through a worker pool.         *)
(***************************************************************************)
EXTENDS Integers, Sequences, FiniteSets, TLC

\* ---------------------------------------------------------------- bounds
MaxN == 6
MaxDim == 2
MaxBic == 3
MaxM == 2
MaxDraw == 1
MaxEntry == 2
MaxCenters == 2

\* best_bic = -np.inf: below every score in 0..MaxBic
NegInf == -1

VARIABLES
    data,       \* the sample matrix handed to OptimizedKDE
    k,          \* the selector's cluster count
    best_bic,   \* the selector's best score so far
    best_kde,   \* the selector's best candidate so far
    kde,        \* the candidate built last
    model,      \* the fitted model: OptimizedKDE.kde, or a ClusteredKDE built directly
    bics,       \* bic of the candidates scored so far, bics[j] for k = j
    pc,         \* "search" | "done" | "failed"
    err,        \* the exception that left the constructor, if any
    fitted,     \* the exposed model as it was when the search ended
    lastCall,   \* the last call on the exposed model and what it returned
    kd,         \* a single KDE object
    kpc,        \* "new" | "ready" | "mapping" | "returned"
    inflight,   \* the pool.map call in progress
    kout        \* what the last call on the KDE returned

selectorVars == <<data, k, best_bic, best_kde, kde, model, bics, pc, err,
                  fitted, lastCall>>
kdeVars == <<kd, kpc, inflight, kout>>
vars == <<data, k, best_bic, best_kde, kde, model, bics, pc, err, fitted,
          lastCall, kd, kpc, inflight, kout>>

None == [none |-> TRUE]
Raise(e, at) == [error |-> e, at |-> at]
IsError(x) == "error" \in DOMAIN x

RECURSIVE SumSeq(_)
SumSeq(s) == IF s = <<>> THEN 0 ELSE Head(s) + SumSeq(Tail(s))

\* ------------------------------------------------------- ClusteredKDE
\* np.std(data, axis=0): zero exactly on a constant column
Std(d) == [c \in 1..d.dim |-> IF d.cols[c] = "constant" THEN "zero" ELSE "positive"]

\* _whiten on the training data: (data - mean)/std, 0/0 on a constant column
WhitenData(d) ==
    [i \in 1..d.N |->
        [row |-> i,
         vals |-> [c \in 1..d.dim |-> IF Std(d)[c] = "zero" THEN "nan" ELSE "finite"]]]

\* self._data[self._assignments == c]
ClusterRows(w, assignments, c) ==
    LET Test(r) == assignments[r.row] = c IN SelectSeq(w, Test)

\* a count of the points with an id up to c
ClusterCountUpTo(assignments, c) ==
    Cardinality({i \in DOMAIN assignments : assignments[i] <= c})

\* np.sum(self._assignments == c)
ClusterCount(assignments, c) ==
    Cardinality({i \in DOMAIN assignments : assignments[i] = c})

\* self._N ** (-2./(self._dim + 4)): 0 to a negative power raises
ScottFactorDefined(n) == n # 0

\* a factorization that does not look at its argument
ChoFactorUnchecked(rows) == TRUE

\* la.cho_factor(kernel_cov) checks its argument for NaN and infinity
ChoFactorFinite(rows) ==
    \A i \in DOMAIN rows : \A c \in DOMAIN rows[i].vals : rows[i].vals[c] = "finite"

\* la.cho_factor(kernel_cov) succeeds on a positive-definite matrix only; the
\* covariance of fewer than two points is not one, and pd says whether the
\* covariance of these rows is
ChoFactorPosDef(rows, pd) == Len(rows) >= 2 /\ pd

\* KDE.__init__ on the rows of one cluster
KDE(rows, dim, pd) ==
    IF ~ScottFactorDefined(Len(rows)) THEN Raise("ZeroDivisionError", "_set_bandwidth")
    ELSE IF ~ChoFactorFinite(rows) THEN Raise("ValueError", "cho_factor")
    ELSE IF ~ChoFactorPosDef(rows, pd) THEN Raise("LinAlgError", "cho_factor")
    ELSE [N |-> Len(rows),
          dim |-> dim,
          data |-> rows,
          cho_factor |-> [cov_of |-> [i \in DOMAIN rows |-> rows[i].row], lower |-> FALSE],
          decomposed_kernel_cov |-> [cov_of |-> [i \in DOMAIN rows |-> rows[i].row]],
          lognorm |-> [N |-> Len(rows), dim |-> dim]]

\* the ids that occur in the assignment
UsedClusterIds(kk, assignments) == {assignments[i] : i \in DOMAIN assignments}

\* for c in range(k)
ClusterIds(kk, assignments) == 0..(kk - 1)

\* ClusteredKDE.__init__(data, k) with the assignment vq returned and whether
\* the clusters' covariances factorize: the first KDE that raised, or the
\* object with its log-weights
ClusteredKDE(d, kk, assignments, pd) ==
    LET w == WhitenData(d)
        ids == ClusterIds(kk, assignments)
        built == [c \in ids |-> KDE(ClusterRows(w, assignments, c), d.dim, pd)]
        bad == {c \in ids : IsError(built[c])}
    IN  IF bad # {}
        THEN built[CHOOSE c \in bad : \A b \in bad : c <= b]
        ELSE [N |-> d.N,
              dim |-> d.dim,
              k |-> kk,
              mean |-> [c \in 1..d.dim |-> [mean_of |-> c]],
              std |-> Std(d),
              data |-> w,
              assignments |-> assignments,
              kdes |-> built,
              logweights |-> [c \in 0..(kk - 1) |->
                                 [num |-> ClusterCount(assignments, c), den |-> d.N]]]

\* the assignments vq can return for k centroids: one id in 0..k-1 per point.
\* The rows of the sample are interchangeable, so they are numbered in the
\* order of the cluster they fall in.
RECURSIVE SortedFrom(_, _, _)
SortedFrom(n, lo, kk) ==
    IF n = 0 THEN {<<>>}
    ELSE UNION {{<<c>> \o s : s \in SortedFrom(n - 1, c, kk)} : c \in lo..(kk - 1)}

Assignments(n, kk) == SortedFrom(n, 0, kk)

\* ----------------------------------------------------------- selector
\* a comparison that lets an equal score through
ImprovesOrEqual(bic, best) == bic >= best

\* if (bic > best_bic)
Improves(bic, best) == bic > best

\* the candidate built last
ExposedLast(best, last) == last

\* self.kde = best_kde
Exposed(best, last) == best

Samples ==
    {[N |-> n, dim |-> dd, cols |-> cs] :
        n \in 1..MaxN, dd \in 1..MaxDim, cs \in UNION {[1..e -> {"varied", "constant"}] : e \in 1..MaxDim}}

Init ==
    /\ data \in {s \in Samples : DOMAIN s.cols = 1..s.dim}
    /\ k = 1
    /\ best_bic = NegInf
    /\ best_kde = None
    /\ kde = None
    /\ model = None
    /\ bics = <<>>
    /\ pc = "search"
    /\ err = None
    /\ fitted = None
    /\ lastCall = [op |-> "none"]
    /\ kd = None
    /\ kpc = "off"
    /\ inflight = None
    /\ kout = None

\* one iteration of the while loop whose ClusteredKDE(data, k) raises
StepFail ==
    /\ pc = "search"
    /\ \E a \in Assignments(data.N, k), pd \in BOOLEAN :
         LET cand == ClusteredKDE(data, k, a, pd) IN
         /\ IsError(cand)
         /\ err' = [cand EXCEPT !.at = <<@, k>>]
    /\ pc' = "failed"
    /\ UNCHANGED <<data, k, best_bic, best_kde, kde, model, bics, fitted, lastCall>>
    /\ UNCHANGED kdeVars

\* one iteration whose candidate scores strictly better
StepImprove ==
    /\ pc = "search"
    /\ \E a \in Assignments(data.N, k), pd \in BOOLEAN, bic \in 0..MaxBic :
         LET cand == ClusteredKDE(data, k, a, pd) IN
         /\ ~IsError(cand)
         /\ Improves(bic, best_bic)
         /\ kde' = cand
         /\ bics' = Append(bics, bic)
         /\ best_kde' = cand
         /\ best_bic' = bic
    /\ k' = k + 1
    /\ UNCHANGED <<data, model, pc, err, fitted, lastCall>>
    /\ UNCHANGED kdeVars

\* one iteration whose candidate does not: break, then self.kde = best_kde
StepStop ==
    /\ pc = "search"
    /\ \E a \in Assignments(data.N, k), pd \in BOOLEAN, bic \in 0..MaxBic :
         LET cand == ClusteredKDE(data, k, a, pd) IN
         /\ ~IsError(cand)
         /\ ~Improves(bic, best_bic)
         /\ kde' = cand
         /\ bics' = Append(bics, bic)
         /\ model' = Exposed(best_kde, cand)
         /\ fitted' = Exposed(best_kde, cand)
    /\ pc' = "done"
    /\ UNCHANGED <<data, k, best_bic, best_kde, err, lastCall>>
    /\ UNCHANGED kdeVars

SearchStep == StepFail \/ StepImprove \/ StepStop

\* ------------------------------------------- calls on the exposed model
\* numpy broadcasting of an M x a array against a length-b vector: the
\* column counts must agree or one of them be 1 (0: they cannot broadcast)
BroadcastCols(a, b) ==
    IF a = b THEN a ELSE IF a = 1 THEN b ELSE IF b = 1 THEN a ELSE 0

\* _whiten on a query: entry (j, c) is (X[j][x] - mean[by]) / std[by]
WhitenQuery(m, X) ==
    [j \in 1..X.M |->
        [row |-> j,
         vals |-> [c \in 1..BroadcastCols(X.cols, m.dim) |->
                      [x |-> IF X.cols = 1 THEN 1 ELSE c,
                       by |-> IF m.dim = 1 THEN 1 ELSE c]]]]

\* _evaluate_point_logpdf((x, data, cho_factor)): the value returned
EvaluatePoint(x, rows, cho) == [logsumexp_at |-> x, centers |-> rows, cho_factor |-> cho]

\* a difference taken in place, in the caller's array
EvaluatePointInPlace(rows, x) ==
    [i \in DOMAIN rows |-> [rows[i] EXCEPT !.vals = [c \in DOMAIN @ |-> "moved"]]]

\* _evaluate_point_logpdf: the caller's data array after the call.  diff =
\* data - x is a new array, and diff *= tdiff changes that one only.
EvaluatePointData(rows, x) == rows

\* KDE.logpdf(X) for whitened rows of `cols` columns
KDELogpdf(e, Xw, cols) ==
    IF cols # e.dim THEN Raise("AssertionError", "KDE.logpdf")
    ELSE [values |-> [j \in DOMAIN Xw |->
                         [result |-> EvaluatePoint(Xw[j], e.data, e.cho_factor),
                          lognorm |-> e.lognorm]]]

\* ClusteredKDE.logpdf(X): _whiten, then logsumexp over logweight + kde(X)
ClusteredLogpdf(m, X) ==
    LET cols == BroadcastCols(X.cols, m.dim)
        Xw == WhitenQuery(m, X)
        per == [c \in DOMAIN m.kdes |-> KDELogpdf(m.kdes[c], Xw, cols)]
    IN  IF cols = 0 THEN Raise("ValueError", "_whiten")
        ELSE IF IsError(per[0]) THEN per[0]
        ELSE [values |-> [j \in 1..X.M |->
                             [c \in DOMAIN m.kdes |->
                                 [logweight |-> m.logweights[c], kde |-> per[c].values[j]]]]]

\* the model after ClusteredKDE.logpdf(X)
AfterLogpdf(m, X) ==
    IF IsError(ClusteredLogpdf(m, X)) THEN m
    ELSE LET Xw == WhitenQuery(m, X)
             After(e) == [e EXCEPT !.data = EvaluatePointData(e.data, Xw[1])]
         IN  [m EXCEPT !.kdes = [c \in DOMAIN m.kdes |-> After(m.kdes[c])]]

\* bic: the number of parameters
NParams(m) == m.k * m.dim + (m.k - 1) + (m.k * (m.dim + 1) * m.dim) \div 2

Queries == {[M |-> mm, cols |-> cc] : mm \in 1..MaxM, cc \in 1..(MaxDim + 1)}

Logpdf ==
    /\ pc = "done"
    /\ \E X \in Queries :
         /\ lastCall' = [op |-> "logpdf", arg |-> X, out |-> ClusteredLogpdf(model, X),
                         prev |-> lastCall.op]
         /\ model' = AfterLogpdf(model, X)
    /\ UNCHANGED <<data, k, best_bic, best_kde, kde, bics, pc, err, fitted>>
    /\ UNCHANGED kdeVars

\* ClusteredKDE.draw(N): a cluster per sample (searchsorted of a uniform
\* draw in the cumulative weights), that cluster's KDE.draw for its samples,
\* then _color
Draw ==
    /\ pc = "done"
    /\ \E n \in 1..MaxDraw :
         \E cl \in [1..n -> DOMAIN model.kdes] :
             /\ \A j \in 1..n : model.logweights[cl[j]].num > 0
             /\ lastCall' = [op |-> "draw", arg |-> n,
                             out |-> [j \in 1..n |->
                                        [cluster |-> cl[j],
                                         kde_draw |-> [centers |-> model.kdes[cl[j]].N,
                                                       factor |-> model.kdes[cl[j]].decomposed_kernel_cov],
                                         color |-> [std |-> model.std, mean |-> model.mean]]],
                             prev |-> lastCall.op]
    /\ UNCHANGED <<data, k, best_bic, best_kde, kde, model, bics, pc, err, fitted>>
    /\ UNCHANGED kdeVars

Bic ==
    /\ pc = "done"
    /\ lastCall' = [op |-> "bic", arg |-> 0,
                    out |-> [log_l |-> ClusteredLogpdf(model, [M |-> model.N, cols |-> model.dim]),
                             nparams |-> NParams(model), N |-> model.N],
                    prev |-> lastCall.op]
    /\ UNCHANGED <<data, k, best_bic, best_kde, kde, model, bics, pc, err, fitted>>
    /\ UNCHANGED kdeVars

Size ==
    /\ pc = "done"
    /\ lastCall' = [op |-> "size", arg |-> 0, out |-> model.N, prev |-> lastCall.op]
    /\ UNCHANGED <<data, k, best_bic, best_kde, kde, model, bics, pc, err, fitted>>
    /\ UNCHANGED kdeVars

Next == SearchStep

Spec == Init /\ [][Next]_vars

\* the constructor runs to its end
FairSpec == Spec /\ WF_vars(SearchStep)

\* -------------------------------- a ClusteredKDE built directly, then used
\* the requested k: beyond N/2 some cluster has fewer than two points, and
\* one such k is kept for every N
InitModel ==
    /\ data \in {s \in Samples : DOMAIN s.cols = 1..s.dim}
    /\ k \in 1..(MaxN \div 2 + 1)
    /\ best_bic = NegInf
    /\ best_kde = None
    /\ kde = None
    /\ model = None
    /\ bics = <<>>
    /\ pc = "new"
    /\ err = None
    /\ fitted = None
    /\ lastCall = [op |-> "none"]
    /\ kd = None
    /\ kpc = "off"
    /\ inflight = None
    /\ kout = None

\* ClusteredKDE(data, k) returns the model
ConstructOk ==
    /\ pc = "new"
    /\ \E a \in Assignments(data.N, k), pd \in BOOLEAN :
         LET cand == ClusteredKDE(data, k, a, pd) IN
         /\ ~IsError(cand)
         /\ model' = cand
         /\ fitted' = cand
    /\ pc' = "done"
    /\ UNCHANGED <<data, k, best_bic, best_kde, kde, bics, err, lastCall>>
    /\ UNCHANGED kdeVars

\* ClusteredKDE(data, k) raises
ConstructFail ==
    /\ pc = "new"
    /\ \E a \in Assignments(data.N, k), pd \in BOOLEAN :
         LET cand == ClusteredKDE(data, k, a, pd) IN
         /\ IsError(cand)
         /\ err' = [cand EXCEPT !.at = <<@, k>>]
    /\ pc' = "failed"
    /\ UNCHANGED <<data, k, best_bic, best_kde, kde, model, bics, fitted, lastCall>>
    /\ UNCHANGED kdeVars

NextModel == ConstructOk \/ ConstructFail \/ Logpdf \/ Draw \/ Bic \/ Size

SpecModel == InitModel /\ [][NextModel]_vars
\* ------------------------------------------------ one KDE, in numbers
\* Matrices are sequences of rows.  Rationals are <<numerator, denominator>>
\* in lowest terms with a positive denominator.
RECURSIVE GCD(_, _)
GCD(a, b) == IF b = 0 THEN a ELSE GCD(b, a % b)

Abs(n) == IF n < 0 THEN -n ELSE n
RNorm(n, d) == LET g == GCD(Abs(n), d) IN <<n \div g, d \div g>>
RInt(n) == <<n, 1>>
RSub(a, b) == RNorm(a[1] * b[2] - b[1] * a[2], a[2] * b[2])
RAdd(a, b) == RNorm(a[1] * b[2] + b[1] * a[2], a[2] * b[2])
RScale(m, a) == RNorm(m * a[1], a[2])
RDivInt(a, m) == RNorm(a[1], a[2] * m)

RECURSIVE RSumSeq(_)
RSumSeq(s) == IF s = <<>> THEN RInt(0) ELSE RAdd(Head(s), RSumSeq(Tail(s)))

Transpose(A) == [i \in DOMAIN A |-> [j \in DOMAIN A |-> A[j][i]]]
MatMul(A, B) ==
    [i \in DOMAIN A |-> [j \in DOMAIN A |-> SumSeq([m \in DOMAIN A |-> A[i][m] * B[m][j]])]]
MatVec(A, x) == [i \in DOMAIN A |-> SumSeq([m \in DOMAIN A |-> A[i][m] * x[m]])]
VecAdd(x, y) == [i \in DOMAIN x |-> x[i] + y[i]]
IsLower(A) == \A i \in DOMAIN A : \A j \in DOMAIN A : j > i => A[i][j] = 0
IsUpper(A) == \A i \in DOMAIN A : \A j \in DOMAIN A : j < i => A[i][j] = 0

Minor(A, col) ==
    [i \in 1..(Len(A) - 1) |->
        [j \in 1..(Len(A) - 1) |-> A[i + 1][IF j < col THEN j ELSE j + 1]]]

\* la.det
RECURSIVE Det(_)
Det(A) ==
    IF Len(A) = 1 THEN A[1][1]
    ELSE SumSeq([j \in 1..Len(A) |->
                    (IF j % 2 = 1 THEN 1 ELSE -1) * A[1][j] * Det(Minor(A, j))])

ISqrt(n) == CHOOSE r \in 0..n : r * r <= n /\ (r + 1) * (r + 1) > n

\* the rows 1..j of the upper-triangular U with U^T U = H
RECURSIVE CholeskyRows(_, _)
CholeskyRows(H, j) ==
    IF j = 0 THEN <<>>
    ELSE LET S(prev, i) == SumSeq([m \in 1..(j - 1) |-> prev[m][j] * prev[m][i]])
             Row(prev, d) ==
                 Append(prev, [i \in 1..Len(H) |->
                                  IF i < j THEN 0
                                  ELSE IF i = j THEN d
                                  ELSE (H[j][i] - S(prev, i)) \div d])
             Step(prev) == Row(prev, ISqrt(H[j][j] - S(prev, j)))
         IN  Step(CHOOSE prev \in {CholeskyRows(H, j - 1)} : TRUE)

\* la.cholesky(a, lower): U with U^T U = a, or L with L L^T = a when lower
Cholesky(H, lower) ==
    IF lower THEN Transpose(CholeskyRows(H, Len(H))) ELSE CholeskyRows(H, Len(H))

\* la.cho_factor(kernel_cov): lower defaults to False
ChoFactor(H) == [c |-> Cholesky(H, FALSE), lower |-> FALSE]

\* la.cholesky(kernel_cov): lower defaults to False
DecomposedKernelCov(H) == Cholesky(H, FALSE)

\* (2*np.pi ** self._dim): the powers of 2 and of pi under the square root
NormPowers(dim) == [two |-> 1, pi |-> dim]

\* self._lognorm = log(N * sqrt(2^two * pi^pi * det))
LogNorm(n, dim, H) ==
    [N |-> n, two |-> NormPowers(dim).two, pi |-> NormPowers(dim).pi, det |-> Det(H)]

\* la.cho_solve((U, False), d): z with U^T z = d, then y with U y = z
RECURSIVE Forward(_, _, _)
Forward(U, d, j) ==
    IF j = 0 THEN <<>>
    ELSE LET Step(z) ==
                 Append(z, RDivInt(RSub(RInt(d[j]),
                                        RSumSeq([m \in 1..(j - 1) |-> RScale(U[m][j], z[m])])),
                                   U[j][j]))
         IN  Step(CHOOSE z \in {Forward(U, d, j - 1)} : TRUE)

RECURSIVE Backward(_, _, _)
Backward(U, z, j) ==
    IF j > Len(U) THEN <<>>
    ELSE LET Step(rest) ==
                 <<RDivInt(RSub(z[j],
                                RSumSeq([m \in 1..(Len(U) - j) |-> RScale(U[j][j + m], rest[m])])),
                           U[j][j])>> \o rest
         IN  Step(CHOOSE rest \in {Backward(U, z, j + 1)} : TRUE)

ChoSolve(cho, d) == Backward(cho.c, Forward(cho.c, d, Len(d)), 1)

\* _evaluate_point_logpdf((x, data, cho_factor)):
\* logsumexp over the centers of -(diff . cho_solve(diff)) / 2.  (CHOOSE from
\* a one-element set evaluates the element once.)
EvaluatePointLogpdf(arg) ==
    LET Diff(i) == [c \in DOMAIN arg.x |-> arg.data[i][c] - arg.x[c]]
        Quad(diff, tdiff) == RSumSeq([c \in DOMAIN diff |-> RScale(diff[c], tdiff[c])])
        Exponent(diff) ==
            RDivInt(RScale(-1, Quad(diff, CHOOSE t \in {ChoSolve(arg.cho_factor, diff)} : TRUE)), 2)
    IN  [logsumexp |-> [i \in DOMAIN arg.data |-> Exponent(CHOOSE d \in {Diff(i)} : TRUE)]]

\* the results in the order the workers finished
ResultsAsCompleted(args, done) == [j \in DOMAIN done |-> done[j].value]

\* self._pool.map(_evaluate_point_logpdf, args): the result of task i is put
\* at place i, whatever the order the workers finished in
PoolMap(args, done) ==
    [i \in DOMAIN args |-> (CHOOSE t \in {done[j] : j \in DOMAIN done} : t.task = i).value]

\* map(_evaluate_point_logpdf, args)
SequentialMap(args) == [i \in DOMAIN args |-> EvaluatePointLogpdf(args[i])]

\* np.array(results) - self._lognorm
Normalize(results, lognorm) ==
    [values |-> [i \in DOMAIN results |-> [result |-> results[i], minus |-> lognorm]]]

\* np.dot(self._decomposed_kernel_cov, X.T).T + self._data[kernels], one row
Recolor(factor, x, center) == VecAdd(MatVec(factor, x), center)

\* lower-triangular factors with a diagonal in 1..MaxEntry and 0 or 1 below
\* it, and the kernel covariances L L^T they give: positive-definite, with
\* an integer factor
FactorRow(i, dim) ==
    {r \in [1..dim -> 0..MaxEntry] :
        \A j \in 1..dim : /\ j = i => r[j] >= 1
                          /\ j > i => r[j] = 0
                          /\ j < i => r[j] <= 1}

RECURSIVE FactorRows(_, _)
FactorRows(i, dim) ==
    IF i = 0 THEN {<<>>}
    ELSE {Append(p, r) : p \in FactorRows(i - 1, dim), r \in FactorRow(i, dim)}

Factors(dim) == FactorRows(dim, dim)

KernelCovs(dim) == {MatMul(L, Transpose(L)) : L \in Factors(dim)}

\* the centers of the cluster: row i is (i - 1, ..., i - 1, 0)
Centers(n, dim) == [i \in 1..n |-> [c \in 1..dim |-> IF c < dim THEN i - 1 ELSE 0]]

\* a standard-normal vector, by its signs
UnitDraws(dim) == [1..dim -> {-1, 1}]

QueryPoints(cols) == {[c \in 1..cols |-> v] : v \in 0..1}
KDEQueries(cols) == UNION {[1..mm -> QueryPoints(cols)] : mm \in 1..MaxM}

KDEOff ==
    /\ data = None
    /\ k = 0
    /\ best_bic = NegInf
    /\ best_kde = None
    /\ kde = None
    /\ model = None
    /\ bics = <<>>
    /\ pc = "off"
    /\ err = None
    /\ fitted = None
    /\ lastCall = [op |-> "none"]

\* KDE.__init__ up to _set_bandwidth, for a cluster of n centers whose kernel
\* covariance (its covariance scaled by Scott's rule) is H
NewKDE(n, dim, H, pool) ==
    [N |-> n, dim |-> dim, data |-> Centers(n, dim), pool |-> pool, kernel_cov |-> H]

\* _set_bandwidth: the object once its fields are set
WithBandwidth(e) ==
    [N |-> e.N, dim |-> e.dim, data |-> e.data, pool |-> e.pool,
     kernel_cov |-> e.kernel_cov,
     cho_factor |-> ChoFactor(e.kernel_cov),
     decomposed_kernel_cov |-> DecomposedKernelCov(e.kernel_cov),
     lognorm |-> LogNorm(e.N, e.dim, e.kernel_cov)]

InitKDE ==
    /\ \E dim \in 1..MaxDim, n \in 1..MaxCenters :
         \E H \in KernelCovs(dim) : kd = NewKDE(n, dim, H, FALSE)
    /\ kpc = "new"
    /\ inflight = None
    /\ kout = None
    /\ KDEOff

SetBandwidth ==
    /\ kpc = "new"
    /\ kd' = WithBandwidth(kd)
    /\ kpc' = "ready"
    /\ UNCHANGED <<inflight, kout>>
    /\ UNCHANGED selectorVars

\* KDE.draw(): one sample
KDEDraw ==
    /\ kpc = "ready"
    /\ \E x \in UnitDraws(kd.dim), kernel \in 1..kd.N :
         kout' = [op |-> "draw", x |-> x, kernel |-> kernel,
                  draws |-> <<Recolor(kd.decomposed_kernel_cov, x, kd.data[kernel])>>]
    /\ kpc' = "returned"
    /\ UNCHANGED <<kd, inflight>>
    /\ UNCHANGED selectorVars

LogpdfArgs(X) == [i \in DOMAIN X |-> [x |-> X[i], data |-> kd.data, cho_factor |-> kd.cho_factor]]

\* KDE.logpdf(X) with X of another width: assert dim == self._dim
KDELogpdfBadShape ==
    /\ kpc = "ready"
    /\ \E cols \in 1..(MaxDim + 1) :
         /\ cols # kd.dim
         /\ kout' = [op |-> "logpdf", X |-> <<[c \in 1..cols |-> 0]>>,
                     out |-> Raise("AssertionError", "KDE.logpdf")]
    /\ kpc' = "returned"
    /\ UNCHANGED <<kd, inflight>>
    /\ UNCHANGED selectorVars

\* KDE.logpdf(X) without a pool: results = map(...)
KDELogpdfSequential ==
    /\ kpc = "ready"
    /\ ~kd.pool
    /\ \E X \in KDEQueries(kd.dim) :
         kout' = [op |-> "logpdf", X |-> X,
                  out |-> Normalize(SequentialMap(LogpdfArgs(X)), kd.lognorm)]
    /\ kpc' = "returned"
    /\ UNCHANGED <<kd, inflight>>
    /\ UNCHANGED selectorVars

\* KDE.logpdf(X) with a pool: the tasks are handed to the workers
KDELogpdfDispatch ==
    /\ kpc = "ready"
    /\ kd.pool
    /\ \E X \in KDEQueries(kd.dim) :
         inflight' = [X |-> X, args |-> LogpdfArgs(X), done |-> <<>>]
    /\ kpc' = "mapping"
    /\ UNCHANGED <<kd, kout>>
    /\ UNCHANGED selectorVars

\* a worker finishes one of the tasks still out
WorkerFinish ==
    /\ kpc = "mapping"
    /\ \E i \in DOMAIN inflight.args :
         /\ \A j \in DOMAIN inflight.done : inflight.done[j].task # i
         /\ inflight' = [inflight EXCEPT
                !.done = Append(@, [task |-> i, value |-> EvaluatePointLogpdf(inflight.args[i])])]
    /\ UNCHANGED <<kd, kpc, kout>>
    /\ UNCHANGED selectorVars

\* every task is done: pool.map returns, and logpdf normalizes and returns
KDELogpdfReturn ==
    /\ kpc = "mapping"
    /\ Len(inflight.done) = Len(inflight.args)
    /\ kout' = [op |-> "logpdf", X |-> inflight.X,
                out |-> Normalize(PoolMap(inflight.args, inflight.done), kd.lognorm),
                finished |-> [j \in DOMAIN inflight.done |-> inflight.done[j].task]]
    /\ inflight' = None
    /\ kpc' = "returned"
    /\ UNCHANGED kd
    /\ UNCHANGED selectorVars

\* the caller has the value the call returned, and may call again
CallerResumes ==
    /\ kpc = "returned"
    /\ kout' = None
    /\ kpc' = "ready"
    /\ UNCHANGED <<kd, inflight>>
    /\ UNCHANGED selectorVars

NextKDE ==
    \/ SetBandwidth
    \/ KDEDraw
    \/ KDELogpdfBadShape
    \/ KDELogpdfSequential
    \/ CallerResumes

SpecKDE == InitKDE /\ [][NextKDE]_vars

\* a constructed KDE, with or without a pool, whose logpdf is called; the
\* kernel covariances are those of the factors with a unit diagonal
UnitKernelCovs(dim) ==
    {MatMul(L, Transpose(L)) : L \in {F \in Factors(dim) : \A i \in 1..dim : F[i][i] = 1}}

InitPool ==
    /\ \E dim \in 1..MaxDim, n \in 1..MaxCenters, pool \in BOOLEAN :
         \E H \in UnitKernelCovs(dim) : kd = WithBandwidth(NewKDE(n, dim, H, pool))
    /\ kpc = "ready"
    /\ inflight = None
    /\ kout = None
    /\ KDEOff

NextPool ==
    \/ KDELogpdfSequential
    \/ KDELogpdfDispatch
    \/ WorkerFinish
    \/ KDELogpdfReturn
    \/ CallerResumes

SpecPool == InitPool /\ [][NextPool]_vars

\* ------------------------------------------------------------ claims
HasConstantColumn == \E c \in DOMAIN data.cols : data.cols[c] = "constant"

\* C1: when the search ends, the model the selector holds has a BIC that is
\* not lower than the BIC of the k = 1 candidate.
C1_NotBelowFirst ==
    pc = "done" => /\ model # None
                   /\ bics[model.k] >= bics[1]

C1_Witness == pc = "done" /\ model # None /\ model.k >= 2

\* C2: candidates are built for k = 1, 2, 3, ... one per k; a candidate is
\* adopted and k incremented only on a strictly greater BIC; at the first
\* candidate that is not strictly greater the search stops, that candidate is
\* not adopted, and the exposed model is the one built just before it, whose
\* BIC is the highest of all candidates built.
C2_GreedySearch ==
    /\ pc \in {"search", "failed"} =>
          /\ Len(bics) = k - 1
          /\ \A j \in 1..(Len(bics) - 1) : bics[j] < bics[j + 1]
          /\ k > 1 => /\ best_kde.k = k - 1
                      /\ kde = best_kde
                      /\ best_bic = bics[k - 1]
          /\ model = None
    /\ pc = "done" =>
          /\ Len(bics) = k
          /\ \A j \in 1..(k - 2) : bics[j] < bics[j + 1]
          /\ bics[k] <= bics[k - 1]
          /\ kde.k = k
          /\ model = best_kde
          /\ model.k = k - 1
          /\ \A j \in 1..k : bics[j] <= bics[model.k]

C2_Witness == pc = "done" /\ Len(bics) >= 3 /\ bics[k] = bics[k - 1]

NoEmptyCluster(m) ==
    m # None => \A c \in 0..(m.k - 1) : ClusterCount(m.assignments, c) > 0

\* C10: the search terminates; it never builds a candidate for k beyond N + 1,
\* and no candidate with an empty cluster is scored or adopted.
C10_Terminates ==
    /\ [](/\ k <= data.N + 1
          /\ NoEmptyCluster(kde)
          /\ NoEmptyCluster(best_kde)
          /\ NoEmptyCluster(model))
    /\ <>(pc \in {"done", "failed"})

C10_Witness ==
    pc = "failed" /\ err.error = "ZeroDivisionError" /\ Len(bics) >= 1

\* C4: the cluster counts of a constructed ClusteredKDE sum to N, every
\* weight is its count over N, and every point is counted in one cluster.
C4_WeightsSumToOne ==
    model # None =>
        /\ SumSeq([c \in 1..model.k |-> model.logweights[c - 1].num]) = model.N
        /\ \A c \in 0..(model.k - 1) : /\ model.logweights[c].den = model.N
                                      /\ model.logweights[c].num = model.kdes[c].N
        /\ \A i \in 1..model.N :
              Cardinality({c \in 0..(model.k - 1) : model.assignments[i] = c}) = 1

C4_Witness == pc = "done" /\ model.k >= 3

\* C5: no call of logpdf, draw, bic or size changes the fitted model, and
\* logpdf returns what it returns on the model as constructed, whatever was
\* called before.
C5_CallsLeaveModel ==
    pc = "done" =>
        /\ model = fitted
        /\ lastCall.op = "logpdf" =>
               lastCall.out = ClusteredLogpdf(fitted, lastCall.arg)

C5_Witness ==
    /\ lastCall.op = "logpdf"
    /\ lastCall.prev \in {"logpdf", "draw", "bic", "size"}
    /\ ~IsError(lastCall.out)

\* C6: logpdf with a query whose number of columns differs from the model's
\* dimension ends in a failure and returns no log-density vector.
C6_ShapeMismatchFails ==
    (lastCall.op = "logpdf" /\ lastCall.arg.cols # model.dim) => IsError(lastCall.out)

\* C7: a sample with a constant column never yields a constructed model;
\* the constructor ends in a failure.
C7_ConstantColumnFails ==
    HasConstantColumn => /\ model = None
                         /\ pc \in {"new", "failed"}
                         /\ pc = "failed" => IsError(err)

C7_Witness == HasConstantColumn /\ pc = "failed" /\ err.error = "ValueError"
\* C3: logpdf returns one result per query point, result i being the
\* evaluation of point i, the same through the pool (the workers finishing in
\* any order) as through the sequential map.
C3_PoolOrder ==
    (kout # None /\ kout.op = "logpdf" /\ ~IsError(kout.out)) =>
        /\ Len(kout.out.values) = Len(kout.X)
        /\ \A i \in DOMAIN kout.X :
              kout.out.values[i].result =
                  EvaluatePointLogpdf([x |-> kout.X[i], data |-> kd.data,
                                       cho_factor |-> kd.cho_factor])
        /\ kout.out = Normalize(SequentialMap(LogpdfArgs(kout.X)), kd.lognorm)

C3_Witness ==
    /\ kout # None
    /\ kout.op = "logpdf"
    /\ "finished" \in DOMAIN kout
    /\ kout.finished = <<2, 1>>
    /\ kout.out.values[1] # kout.out.values[2]

RECURSIVE SumOver(_, _, _, _)
SumOver(S, F, i, j) ==
    IF S = {} THEN 0
    ELSE LET x == CHOOSE y \in S : TRUE
         IN  MatVec(F, x)[i] * MatVec(F, x)[j] + SumOver(S \ {x}, F, i, j)

\* the covariance of the noise draw adds, over unit draws of identity
\* covariance, times the number of unit draws
NoiseCovSum(F) ==
    [i \in DOMAIN F |-> [j \in DOMAIN F |-> SumOver(UnitDraws(Len(F)), F, i, j)]]

Scaled(n, A) == [i \in DOMAIN A |-> [j \in DOMAIN A |-> n * A[i][j]]]

\* C8: the factor stored for sampling is lower-triangular with
\* factor * factor^T = H, draw multiplies each unit vector by it, and the
\* noise it adds to the chosen center has covariance H.
C8_SamplingFactor ==
    kpc # "new" =>
        /\ IsLower(kd.decomposed_kernel_cov)
        /\ MatMul(kd.decomposed_kernel_cov, Transpose(kd.decomposed_kernel_cov)) = kd.kernel_cov
        /\ NoiseCovSum(kd.decomposed_kernel_cov)
              = Scaled(Cardinality(UnitDraws(kd.dim)), kd.kernel_cov)
        /\ (kout # None /\ kout.op = "draw") =>
              kout.draws[1] = VecAdd(MatVec(kd.decomposed_kernel_cov, kout.x), kd.data[kout.kernel])

\* C9: the log-normalization constant is log(N * sqrt((2 pi)^D * det(H))):
\* under the square root 2 and pi both carry the power D.
C9_LogNorm ==
    kpc # "new" =>
        /\ kd.lognorm = [N |-> kd.N, two |-> kd.dim, pi |-> kd.dim, det |-> Det(kd.kernel_cov)]
        /\ (kout # None /\ kout.op = "logpdf" /\ ~IsError(kout.out)) =>
              \A i \in DOMAIN kout.out.values : kout.out.values[i].minus = kd.lognorm

\* what _set_bandwidth does store: an upper-triangular U with U^T U = H
FactorIsUpper ==
    kpc # "new" =>
        /\ IsUpper(kd.decomposed_kernel_cov)
        /\ MatMul(Transpose(kd.decomposed_kernel_cov), kd.decomposed_kernel_cov) = kd.kernel_cov
        /\ kd.cho_factor.c = kd.decomposed_kernel_cov
====
